---- MODULE Spec2Model ----
(***************************************************************************)
(* Canyon-SQL: the cross-backend value and row abstraction, the Query /    *)
(* QueryBuilder layer, DatabaseResult and the insert CRUD operation.       *)
(*                                                                         *)
(* SQL text is a sequence of tokens (TLC cannot index the characters of a  *)
(* string): the base statement is one token, and every predicate adds a    *)
(* keyword, a column, a comparator and a placeholder token.                *)
(***************************************************************************)
EXTENDS Integers, Sequences, FiniteSets, TLC

VARIABLES
    bstate,           \* per call: lifecycle of the QueryBuilder
    sql,              \* per call: Query.sql
    params,           \* per call: Query.params
    datasource_name,  \* per call: QueryBuilder.datasource_name
    genArgs,          \* per call: the arguments Query::generate was called with
    clauses,          \* per call: the where_clause calls made, in order
    executed,         \* per call: how many times the terminal execute ran
    sent,             \* per call: what was handed to the Transaction
    result,           \* per call: the DatabaseResult the execution returned
    row,              \* the &dyn Row at hand (None before a row is fetched)
    rowOp,            \* the last RowOperations call on it and its outcome
    enc,              \* the last QueryParameter conversion and its outcome
    dbres,            \* a DatabaseResult (None before DatabaseResult::new)
    dbres0,           \* the row vector it was constructed from
    responses,        \* what the as_response calls on it returned, in order
    lastRaw,          \* what the last get_results returned
    lastCount,        \* what the last get_number_of_results returned
    instance,         \* the caller's Leagues instances
    nextKey,          \* the key the backend generates for the next insert
    insertLog,        \* the insert statements executed, in order
    failure,          \* per call: the execution failure its caller received
    trip              \* the last encode-then-decode round trip and its outcome

builderVars == <<bstate, sql, params, datasource_name, genArgs, clauses,
                 executed, sent, result>>
resultVars == <<dbres, dbres0, responses, lastRaw, lastCount>>
insertVars == <<instance, nextKey, insertLog>>
OtherThanBuilder == <<row, rowOp, enc, resultVars, insertVars, failure, trip>>

-----------------------------------------------------------------------------
(* Bounds of the model *)

MaxClauses == 2      \* where_clause calls per builder
MaxRows == 2         \* rows in the row vector of a DatabaseResult
MaxDecodes == 2      \* as_response calls on one DatabaseResult
MaxInserts == 2      \* insert calls of one run

-----------------------------------------------------------------------------
(* Values shared by the components *)

Nothing == "<none>"          \* no builder yet

\* Option<T>: None is the empty sequence, Some(x) the one-element sequence.
None == <<>>
Some(x) == <<x>>
IsSome(o) == Len(o) = 1
Unwrapped(o) == o[1]

\* Scalar values, uniformly typed so that any two can be compared.
IntVal(n) == [tag |-> "int", i |-> n, s |-> ""]
StrVal(t) == [tag |-> "str", i |-> 0, s |-> t]
SqlNull == [tag |-> "null", i |-> 0, s |-> ""]   \* the backend's SQL NULL

Calls == {"call_a", "call_b"}    \* independent CRUD/query calls

SeqsUpTo(S, n) == UNION {[1..k -> S] : k \in 0..n}

-----------------------------------------------------------------------------
(* Rows as the client crates return them: the backend that produced the    *)
(* row and its cells in the backend's column order.                        *)

Cell(name, type, value) == [name |-> name, type |-> type, value |-> value]

PgRow(id, slug) ==
    [backend |-> "postgres",
     cols |-> <<Cell("id", "INT4", id), Cell("slug", "TEXT", slug)>>]

MsRow(id, slug) ==
    [backend |-> "mssql",
     cols |-> <<Cell("id", "Int4", id), Cell("slug", "NVarchar", slug)>>]

CellValue(r, col) ==
    LET i == CHOOSE j \in DOMAIN r.cols : r.cols[j].name = col
    IN r.cols[i].value

-----------------------------------------------------------------------------
(* Query / QueryBuilder *)

BaseSqls == {"SELECT * FROM leagues", "SELECT * FROM tournaments"}
Datasources == {"postgres_docker", "postgres_local"}

\* LeaguesFields variants carrying a value: (column name, parameter value).
FieldValues == {[column |-> "id", value |-> IntVal(1)],
                [column |-> "slug", value |-> StrVal("LEC")]}

Comps == {"Eq", "Neq"}

CompText(comp) == IF comp = "Eq" THEN "=" ELSE "<>"

\* format!("${}", k)
PlaceholderTexts == <<"$1", "$2", "$3", "$4", "$5", "$6">>
PlaceholderText(k) == PlaceholderTexts[k]

IsPlaceholder(tok) == \E k \in DOMAIN PlaceholderTexts : PlaceholderTexts[k] = tok
PlaceholderNumber(tok) == CHOOSE k \in DOMAIN PlaceholderTexts : PlaceholderTexts[k] = tok

\* Query::generate builds the Query: the given text and no parameters.
GenerateNonEmptyParams(sql_text) == [sql |-> <<sql_text>>, params |-> <<IntVal(0)>>]
GenerateDropsSql(sql_text) == [sql |-> <<"">>, params |-> <<>>]
GenerateQuery(sql_text) == [sql |-> <<sql_text>>, params |-> <<>>]

\* QueryBuilder::new(query, datasource_name)
QueryBuilderNew(query, ds) ==
    [query |-> query, datasource_name |-> ds, state |-> "Empty"]

Generate(c, sql_text, ds) ==
    /\ bstate[c] = Nothing
    /\ LET b == QueryBuilderNew(GenerateQuery(sql_text), ds) IN
        /\ bstate' = [bstate EXCEPT ![c] = b.state]
        /\ sql' = [sql EXCEPT ![c] = b.query.sql]
        /\ params' = [params EXCEPT ![c] = b.query.params]
        /\ datasource_name' = [datasource_name EXCEPT ![c] = b.datasource_name]
    /\ genArgs' = [genArgs EXCEPT ![c] = Some([sql |-> sql_text, ds |-> ds])]
    /\ UNCHANGED <<clauses, executed, sent, result, OtherThanBuilder>>

\* where_clause(field_value, comparator): one predicate appended to the text,
\* its value appended to the parameter list.
PredicateTokens(n, fv, comp) ==
    <<IF n = 0 THEN "WHERE" ELSE "AND", fv.column, CompText(comp),
      PlaceholderText(n + 1)>>

WhereClause(c, fv, comp) ==
    /\ bstate[c] \in {"Empty", "Building"}
    /\ Len(clauses[c]) < MaxClauses
    /\ sql' = [sql EXCEPT ![c] = @ \o PredicateTokens(Len(params[c]), fv, comp)]
    /\ params' = [params EXCEPT ![c] = Append(@, fv.value)]
    /\ bstate' = [bstate EXCEPT ![c] = "Building"]
    /\ clauses' = [clauses EXCEPT ![c] = Append(@, [fv |-> fv, comp |-> comp])]
    /\ UNCHANGED <<datasource_name, genArgs, executed, sent, result, OtherThanBuilder>>

\* DatabaseResult::new
\* (first: a constructor that hands out the rows an earlier call cached)
DatabaseResultNewShared(rows) ==
    IF \E c \in Calls : IsSome(result[c])
    THEN Unwrapped(result[CHOOSE c \in Calls : IsSome(result[c])])
    ELSE [wrapper |-> rows]
DatabaseResultNew(rows) == [wrapper |-> rows]

\* The backend behind the Transaction: the tables the example program wires,
\* and the evaluation of a finalized statement against them. Predicate k of
\* the text compares its column with the parameter its placeholder numbers.
Table(base) ==
    IF base = "SELECT * FROM leagues"
    THEN <<PgRow(IntVal(1), StrVal("LEC")), PgRow(IntVal(2), StrVal("LCK"))>>
    ELSE <<PgRow(IntVal(1), StrVal("LEC"))>>

NumPredicates(text) == (Len(text) - 1) \div 4

PredicateHolds(r, text, ps, k) ==
    LET col == text[4 * k - 1]
        cmp == text[4 * k]
        arg == ps[PlaceholderNumber(text[4 * k + 1])]
    IN IF cmp = "=" THEN CellValue(r, col) = arg ELSE CellValue(r, col) # arg

RowMatches(r, text, ps) ==
    \A k \in 1..NumPredicates(text) : PredicateHolds(r, text, ps, k)

Execute(text, ps) ==
    SelectSeq(Table(text[1]), LAMBDA r : RowMatches(r, text, ps))

\* query(): the terminal execute. It takes the builder by value, so it is
\* enabled only while the builder has not been consumed.
QueryExecGuardReusable(c) == bstate[c] \in {"Empty", "Building", "Finalized"}
QueryExecGuard(c) == bstate[c] \in {"Empty", "Building"}

\* (first: an execute that drains the parameter list it hands over)
QueryExecDrainsParams(c) ==
    /\ QueryExecGuard(c)
    /\ bstate' = [bstate EXCEPT ![c] = "Finalized"]
    /\ sent' = [sent EXCEPT ![c] = Some([sql |-> sql[c], params |-> params[c],
                                          datasource_name |-> datasource_name[c]])]
    /\ executed' = [executed EXCEPT ![c] = @ + 1]
    /\ result' = [result EXCEPT ![c] = Some(DatabaseResultNew(Execute(sql[c], params[c])))]
    /\ params' = [params EXCEPT ![c] = <<>>]
    /\ UNCHANGED <<sql, datasource_name, genArgs, clauses, OtherThanBuilder>>

QueryExec(c) ==
    /\ QueryExecGuard(c)
    /\ bstate' = [bstate EXCEPT ![c] = "Finalized"]
    /\ sent' = [sent EXCEPT ![c] = Some([sql |-> sql[c], params |-> params[c],
                                          datasource_name |-> datasource_name[c]])]
    /\ executed' = [executed EXCEPT ![c] = @ + 1]
    /\ result' = [result EXCEPT ![c] = Some(DatabaseResultNew(Execute(sql[c], params[c])))]
    /\ UNCHANGED <<sql, params, datasource_name, genArgs, clauses, OtherThanBuilder>>

\* The failures a backend reports while executing a statement.
Faults == {"ConnectionError", "ExecutionError"}

\* What the Transaction does with a backend failure: the statement was sent
\* once, the failure goes to the caller and no DatabaseResult is built.
TransactSwallows(text, ps, fault) ==
    [attempts |-> 1, surfaced |-> None, result |-> Some(DatabaseResultNew(<<>>))]
TransactRetries(text, ps, fault) ==
    [attempts |-> 2, surfaced |-> None,
     result |-> Some(DatabaseResultNew(Execute(text, ps)))]
TransactFailed(text, ps, fault) ==
    [attempts |-> 1, surfaced |-> Some(fault), result |-> None]

\* query() when the backend fails: the builder is consumed all the same.
QueryExecFails(c, fault) ==
    /\ QueryExecGuard(c)
    /\ bstate' = [bstate EXCEPT ![c] = "Finalized"]
    /\ sent' = [sent EXCEPT ![c] = Some([sql |-> sql[c], params |-> params[c],
                                          datasource_name |-> datasource_name[c]])]
    /\ executed' = [executed EXCEPT ![c] = @ + 1]
    /\ LET t == TransactFailed(sql[c], params[c], fault) IN
        /\ result' = [result EXCEPT ![c] = t.result]
        /\ failure' = [failure EXCEPT ![c] =
                Some([fault |-> fault, attempts |-> t.attempts, surfaced |-> t.surfaced])]
    /\ UNCHANGED <<sql, params, datasource_name, genArgs, clauses,
                   row, rowOp, enc, resultVars, insertVars, trip>>

BuilderInit ==
    /\ failure = [c \in Calls |-> None]
    /\ bstate = [c \in Calls |-> Nothing]
    /\ sql = [c \in Calls |-> <<>>]
    /\ params = [c \in Calls |-> <<>>]
    /\ datasource_name = [c \in Calls |-> Nothing]
    /\ genArgs = [c \in Calls |-> None]
    /\ clauses = [c \in Calls |-> <<>>]
    /\ executed = [c \in Calls |-> 0]
    /\ sent = [c \in Calls |-> None]
    /\ result = [c \in Calls |-> None]

-----------------------------------------------------------------------------
(* Row abstraction: impl RowOperations for &dyn Row *)

rowVars == <<row, rowOp>>

\* Rows either client crate can return, with present and NULL cells.
TestRows == {PgRow(IntVal(1), StrVal("LEC")), PgRow(IntVal(2), SqlNull),
             PgRow(SqlNull, StrVal("LCK")),
             MsRow(IntVal(1), StrVal("LEC")), MsRow(IntVal(2), SqlNull),
             MsRow(SqlNull, StrVal("LCK"))}

ColumnNames == {"id", "slug", "missing"}
OutputTypes == {"i32", "String"}

\* What a call hands back to its caller. "Panic" is the unwinding of the
\* calling task; "Err" is an explicit failure value.
Value(v) == [kind |-> "Value", value |-> v, error |-> "", cols |-> <<>>]
Absent == [kind |-> "None", value |-> SqlNull, error |-> "", cols |-> <<>>]
Panic == [kind |-> "Panic", value |-> SqlNull, error |-> "", cols |-> <<>>]
Err(e) == [kind |-> "Err", value |-> SqlNull, error |-> e, cols |-> <<>>]
Columns(cs) == [kind |-> "Columns", value |-> SqlNull, error |-> "", cols |-> cs]

HasColumn(r, col) == \E j \in DOMAIN r.cols : r.cols[j].name = col
CellOf(r, col) == r.cols[CHOOSE j \in DOMAIN r.cols : r.cols[j].name = col]

NumericTypes == {"i16", "i32", "i64", "f32", "f64"}
TextTypes == {"String", "str"}

\* The ColumnData variant each implementation builds (IntoSql for chrono).
SqlServerVariant(ty) ==
    CASE ty = "bool" -> "Bit"
      [] ty = "i16" -> "I16"
      [] ty = "i32" -> "I32"
      [] ty = "i64" -> "I64"
      [] ty = "f32" -> "F32"
      [] ty = "f64" -> "F64"
      [] ty \in TextTypes -> "String"
      [] ty = "NaiveDate" -> "Date"
      [] ty = "NaiveTime" -> "Time"
      [] ty = "NaiveDateTime" -> "DateTime2"
      [] OTHER -> "DateTimeOffset"

\* The PostgreSQL type tokio_postgres binds and reads each Rust type as.
PgType(ty) ==
    CASE ty = "bool" -> "BOOL"
      [] ty = "i16" -> "INT2"
      [] ty = "i32" -> "INT4"
      [] ty = "i64" -> "INT8"
      [] ty = "f32" -> "FLOAT4"
      [] ty = "f64" -> "FLOAT8"
      [] ty \in TextTypes -> "TEXT"
      [] ty = "NaiveDate" -> "DATE"
      [] ty = "NaiveTime" -> "TIME"
      [] ty = "NaiveDateTime" -> "TIMESTAMP"
      [] OTHER -> "TIMESTAMPTZ"

\* FromSql::accepts of the requested type for the cell's native type.
Accepts(out, type) ==
    \/ out = "i32" /\ type \in {"INT4", "Int4"}
    \/ out = "String" /\ type \in {"TEXT", "NVarchar"}
    \/ type = PgType(out)
    \/ type = SqlServerVariant(out)

\* tokio_postgres::Row::get::<&str, Output>: panics on any error of try_get
\* (no such column, wrong type, NULL into a non-optional type).
PgGet(r, col, out) ==
    IF ~HasColumn(r, col) THEN Panic
    ELSE IF ~Accepts(out, CellOf(r, col).type) THEN Panic
    ELSE IF CellOf(r, col).value = SqlNull THEN Panic
    ELSE Value(CellOf(r, col).value)

\* tokio_postgres::Row::get::<&str, Option<Output>>: as above, NULL is None.
PgGetOpt(r, col, out) ==
    IF ~HasColumn(r, col) THEN Panic
    ELSE IF ~Accepts(out, CellOf(r, col).type) THEN Panic
    ELSE IF CellOf(r, col).value = SqlNull THEN Absent
    ELSE Value(CellOf(r, col).value)

\* tiberius::Row::try_get: Err for no such column or a conversion error,
\* Ok(None) for NULL, Ok(Some(v)) otherwise.
MsTryGet(r, col, out) ==
    IF ~HasColumn(r, col) THEN Err("Conversion")
    ELSE IF ~Accepts(out, CellOf(r, col).type) THEN Err("Conversion")
    ELSE IF CellOf(r, col).value = SqlNull THEN Absent
    ELSE Value(CellOf(r, col).value)

\* tiberius::Row::get is try_get(..).unwrap().
MsGet(r, col, out) ==
    IF MsTryGet(r, col, out).kind = "Err" THEN Panic ELSE MsTryGet(r, col, out)

\* Option::expect / Result::expect
Expect(o) == IF o.kind \in {"None", "Err"} THEN Panic ELSE o
ExpectOk(o) == IF o.kind = "Err" THEN Panic ELSE o

get_postgres(r, col, out) ==
    IF r.backend = "postgres" THEN PgGet(r, col, out) ELSE Panic

get_mssql(r, col, out) ==
    IF r.backend = "mssql" THEN Expect(MsGet(r, col, out)) ELSE Panic

get_postgres_opt(r, col, out) ==
    IF r.backend = "postgres" THEN PgGetOpt(r, col, out) ELSE Panic

\* The source reads `row.try_get.expect(..)`: the call it stands for is
\* try_get::<Output, &str>(col_name).
get_mssql_opt(r, col, out) ==
    IF r.backend = "mssql" THEN ExpectOk(MsTryGet(r, col, out)) ELSE Panic

\* columns(): the body that would fill `cols` is commented out.
columns(r) == Columns(<<>>)

RowOp(op, col, out, outcome) ==
    [op |-> op, col |-> col, out |-> out, outcome |-> outcome]

FetchRow(r) ==
    /\ row' = Some(r)
    /\ rowOp' = None
    /\ UNCHANGED <<builderVars, enc, resultVars, insertVars, failure, trip>>

GetPostgres(col, out) ==
    /\ IsSome(row)
    /\ rowOp' = Some(RowOp("get_postgres", col, out, get_postgres(Unwrapped(row), col, out)))
    /\ UNCHANGED <<row, builderVars, enc, resultVars, insertVars, failure, trip>>

GetMssql(col, out) ==
    /\ IsSome(row)
    /\ rowOp' = Some(RowOp("get_mssql", col, out, get_mssql(Unwrapped(row), col, out)))
    /\ UNCHANGED <<row, builderVars, enc, resultVars, insertVars, failure, trip>>

GetPostgresOpt(col, out) ==
    /\ IsSome(row)
    /\ rowOp' = Some(RowOp("get_postgres_opt", col, out,
                            get_postgres_opt(Unwrapped(row), col, out)))
    /\ UNCHANGED <<row, builderVars, enc, resultVars, insertVars, failure, trip>>

GetMssqlOpt(col, out) ==
    /\ IsSome(row)
    /\ rowOp' = Some(RowOp("get_mssql_opt", col, out,
                            get_mssql_opt(Unwrapped(row), col, out)))
    /\ UNCHANGED <<row, builderVars, enc, resultVars, insertVars, failure, trip>>

ColumnsOp ==
    /\ IsSome(row)
    /\ rowOp' = Some(RowOp("columns", "", "", columns(Unwrapped(row))))
    /\ UNCHANGED <<row, builderVars, enc, resultVars, insertVars, failure, trip>>

RowInit ==
    /\ row = None
    /\ rowOp = None

-----------------------------------------------------------------------------
(* Value codec: the QueryParameter implementations *)

ChronoTypes == {"NaiveDate", "NaiveTime", "NaiveDateTime",
                "DateTime<FixedOffset>", "DateTime<Utc>"}

\* The forms of each type that implement QueryParameter.
Forms(ty) ==
    IF ty = "bool" THEN {"T"}
    ELSE IF ty \in NumericTypes \cup {"String"}
    THEN {"T", "&T", "Option<T>", "Option<&T>"}
    ELSE IF ty = "str" THEN {"&T", "Option<&T>"}
    ELSE {"T", "Option<T>"}

OptionalForms == {"Option<T>", "Option<&T>"}

Samples(ty) ==
    IF ty \in NumericTypes \cup {"bool"} THEN {IntVal(0), IntVal(1)}
    ELSE IF ty \in TextTypes THEN {StrVal(""), StrVal("LEC")}
    ELSE {StrVal("1970-01-01"), StrVal("2015-03-14")}

ParamTypes == {"bool"} \cup NumericTypes \cup TextTypes \cup ChronoTypes

ParamsOf(ty, form) ==
    {[ty |-> ty, form |-> form, val |-> Some(v)] : v \in Samples(ty)}
    \cup (IF form \in OptionalForms
          THEN {[ty |-> ty, form |-> form, val |-> None]} ELSE {})

ParamValues == UNION {ParamsOf(ty, form) : ty \in ParamTypes, form \in {"T", "&T", "Option<T>", "Option<&T>"}}

WellFormed(p) == p.form \in Forms(p.ty)

ColumnData(variant, data) == [kind |-> "ColumnData", variant |-> variant, data |-> data]
ToSqlRef(ty, data) == [kind |-> "ToSql", variant |-> ty, data |-> data]
EncPanic == [kind |-> "Panic", variant |-> "", data |-> None]

\* as_postgres_param returns `self` as &dyn ToSql; ToSql for Option<T>
\* writes NULL for None.
as_postgres_param(p) == ToSqlRef(p.ty, p.val)

\* as_sqlserver_param. Option<&T> of the numeric types unwraps (or expects)
\* the option before wrapping it again.
as_sqlserver_param(p) ==
    IF p.ty \in NumericTypes /\ p.form = "Option<&T>"
    THEN IF IsSome(p.val)
         THEN ColumnData(SqlServerVariant(p.ty), Some(Unwrapped(p.val)))
         ELSE EncPanic
    ELSE ColumnData(SqlServerVariant(p.ty), p.val)

AsPostgresParam(p) ==
    /\ enc' = Some([param |-> p, backend |-> "postgres", outcome |-> as_postgres_param(p)])
    /\ UNCHANGED <<builderVars, rowVars, resultVars, insertVars, failure, trip>>

AsSqlserverParam(p) ==
    /\ enc' = Some([param |-> p, backend |-> "mssql", outcome |-> as_sqlserver_param(p)])
    /\ UNCHANGED <<builderVars, rowVars, resultVars, insertVars, failure, trip>>

\* The cell a backend hands back for a stored parameter: the native type of
\* the encoding, NULL for an encoded None.
StoredRow(p, b, e) ==
    [backend |-> b,
     cols |-> <<Cell("v", IF b = "postgres" THEN PgType(e.variant) ELSE e.variant,
                     IF IsSome(e.data) THEN Unwrapped(e.data) ELSE SqlNull)>>]

Encode(p, b) == IF b = "postgres" THEN as_postgres_param(p) ELSE as_sqlserver_param(p)

Decode(p, b, r) ==
    IF p.form \in OptionalForms
    THEN (IF b = "postgres" THEN get_postgres_opt(r, "v", p.ty)
                            ELSE get_mssql_opt(r, "v", p.ty))
    ELSE (IF b = "postgres" THEN get_postgres(r, "v", p.ty)
                            ELSE get_mssql(r, "v", p.ty))

\* Encode a parameter for a backend, then extract it from the row that
\* carries the encoding. A panic of the encoding ends the trip.
RoundTrip(p, b) ==
    /\ LET e == Encode(p, b) IN
        trip' = Some([param |-> p, backend |-> b,
                      decoded |-> IF e.kind = "Panic" THEN Panic
                                  ELSE Decode(p, b, StoredRow(p, b, e))])
    /\ UNCHANGED <<builderVars, rowVars, enc, resultVars, insertVars, failure>>

CodecInit == enc = None /\ trip = None

-----------------------------------------------------------------------------
(* DatabaseResult *)

ResultRows == {PgRow(IntVal(1), StrVal("LEC")), PgRow(IntVal(2), StrVal("LCK")),
               PgRow(IntVal(3), StrVal("LPL"))}

RowVectors == SeqsUpTo(ResultRows, MaxRows)

\* Z::deserialize: the row mapper of Leagues, reading each field by name.
deserialize(r) ==
    [id |-> get_postgres(r, "id", "i32").value,
     slug |-> get_postgres(r, "slug", "String").value]

\* as_response pushes the mapping of every row of the wrapper, in order.
as_response_reversed(d) ==
    [i \in 1..Len(d.wrapper) |-> deserialize(d.wrapper[Len(d.wrapper) + 1 - i])]
as_response(d) == [i \in 1..Len(d.wrapper) |-> deserialize(d.wrapper[i])]

get_results(d) == d.wrapper

\* `as i32` of a usize: lengths above i32::MAX wrap around.
I32Max == 2147483647
AsI32(n) == IF n <= I32Max THEN n ELSE ((n - I32Max) - I32Max) - 2

get_number_of_results(d) == AsI32(Len(d.wrapper))

DatabaseResultCreate(rows) ==
    /\ dbres = None
    /\ dbres' = Some(DatabaseResultNew(rows))
    /\ dbres0' = rows
    /\ UNCHANGED <<responses, lastRaw, lastCount, builderVars, rowVars, enc, insertVars, failure, trip>>

\* A decode that empties the wrapper it reads (into_iter / drain in place of iter).
AsResponseDraining ==
    /\ IsSome(dbres)
    /\ Len(responses) < MaxDecodes
    /\ responses' = Append(responses, as_response(Unwrapped(dbres)))
    /\ dbres' = Some(DatabaseResultNew(<<>>))
    /\ UNCHANGED <<dbres0, lastRaw, lastCount, builderVars, rowVars, enc, insertVars, failure, trip>>

AsResponse ==
    /\ IsSome(dbres)
    /\ Len(responses) < MaxDecodes
    /\ responses' = Append(responses, as_response(Unwrapped(dbres)))
    /\ UNCHANGED <<dbres, dbres0, lastRaw, lastCount, builderVars, rowVars, enc, insertVars, failure, trip>>

GetResults ==
    /\ IsSome(dbres)
    /\ lastRaw' = Some(get_results(Unwrapped(dbres)))
    /\ UNCHANGED <<dbres, dbres0, responses, lastCount, builderVars, rowVars, enc, insertVars, failure, trip>>

GetNumberOfResults ==
    /\ IsSome(dbres)
    /\ lastCount' = Some(get_number_of_results(Unwrapped(dbres)))
    /\ UNCHANGED <<dbres, dbres0, responses, lastRaw, builderVars, rowVars, enc, insertVars, failure, trip>>

ResultInit ==
    /\ dbres = None
    /\ dbres0 = <<>>
    /\ responses = <<>>
    /\ lastRaw = None
    /\ lastCount = None

-----------------------------------------------------------------------------
(* insert, as wire_data_on_schema uses it *)

Instances == {"lec", "lck"}
SuppliedIds == {0, 1, 2, 43}

\* The fields of Leagues, and the primary key Canyon manages.
LeaguesFieldNames == <<"id", "ext_id", "slug", "name", "region", "image_url">>
PrimaryKey == "id"

Leagues(id, ext_id, slug, name, region, image_url) ==
    [id |-> IntVal(id), ext_id |-> IntVal(ext_id), slug |-> StrVal(slug),
     name |-> StrVal(name), region |-> StrVal(region), image_url |-> StrVal(image_url)]

LeaguesData(who, id) ==
    IF who = "lec"
    THEN Leagues(id, 1, "LEC", "League Europe Champions", "EU West", "https://lec.eu")
    ELSE Leagues(id, 2, "LCK", "League Champions Korea", "South Korea", "https://korean_lck.kr")

\* The columns of the insert statement: every field but the primary key.
InsertColumnsWithId == LeaguesFieldNames
InsertColumns == SelectSeq(LeaguesFieldNames, LAMBDA f : f # PrimaryKey)

InsertStatement ==
    <<"INSERT INTO leagues">> \o InsertColumns \o <<"VALUES">>
        \o [k \in 1..Len(InsertColumns) |-> PlaceholderText(k)]

InsertParams(inst) == [k \in 1..Len(InsertColumns) |-> inst[InsertColumns[k]]]

NewLeagues(who, id) ==
    /\ instance[who] = None
    /\ instance' = [instance EXCEPT ![who] = Some(LeaguesData(who, id))]
    /\ UNCHANGED <<nextKey, insertLog, builderVars, rowVars, enc, resultVars, failure, trip>>

\* insert(): executes the statement with the instance's fields and writes the
\* key the backend generated back into the instance.
Insert(who) ==
    /\ IsSome(instance[who])
    /\ Len(insertLog) < MaxInserts
    /\ insertLog' = Append(insertLog,
            [who |-> who, before |-> Unwrapped(instance[who]),
             sql |-> InsertStatement, columns |-> InsertColumns,
             params |-> InsertParams(Unwrapped(instance[who])), key |-> nextKey])
    /\ nextKey' = nextKey + 1
    /\ instance' = [instance EXCEPT ![who] =
                        Some([Unwrapped(@) EXCEPT !.id = IntVal(nextKey)])]
    /\ UNCHANGED <<builderVars, rowVars, enc, resultVars, failure, trip>>

InsertInit ==
    /\ instance = [w \in Instances |-> None]
    /\ nextKey = 1
    /\ insertLog = <<>>

-----------------------------------------------------------------------------

vars == <<builderVars, rowVars, enc, resultVars, insertVars, failure, trip>>

Init == BuilderInit /\ RowInit /\ CodecInit /\ ResultInit /\ InsertInit

Next ==
    \/ \E c \in Calls, s \in BaseSqls, d \in Datasources : Generate(c, s, d)
    \/ \E c \in Calls, fv \in FieldValues, cmp \in Comps : WhereClause(c, fv, cmp)
    \/ \E c \in Calls : QueryExec(c)
    \/ \E c \in Calls, fault \in Faults : QueryExecFails(c, fault)

Spec == Init /\ [][Next]_vars

NextRow ==
    \/ \E r \in TestRows : FetchRow(r)
    \/ \E col \in ColumnNames, out \in OutputTypes : GetPostgres(col, out)
    \/ \E col \in ColumnNames, out \in OutputTypes : GetMssql(col, out)
    \/ \E col \in ColumnNames, out \in OutputTypes : GetPostgresOpt(col, out)
    \/ \E col \in ColumnNames, out \in OutputTypes : GetMssqlOpt(col, out)
    \/ ColumnsOp

SpecRow == Init /\ [][NextRow]_vars

NextCodec ==
    \/ \E p \in {q \in ParamValues : WellFormed(q)} : AsPostgresParam(p)
    \/ \E p \in {q \in ParamValues : WellFormed(q)} : AsSqlserverParam(p)

SpecCodec == Init /\ [][NextCodec]_vars

NextRoundTrip ==
    \E p \in {q \in ParamValues : WellFormed(q)}, b \in {"postgres", "mssql"} :
        RoundTrip(p, b)

SpecRoundTrip == Init /\ [][NextRoundTrip]_vars

NextResult ==
    \/ \E rows \in RowVectors : DatabaseResultCreate(rows)
    \/ AsResponse
    \/ GetResults
    \/ GetNumberOfResults

SpecResult == Init /\ [][NextResult]_vars

NextInsert ==
    \/ \E who \in Instances, id \in SuppliedIds : NewLeagues(who, id)
    \/ \E who \in Instances : Insert(who)

SpecInsert == Init /\ [][NextInsert]_vars

-----------------------------------------------------------------------------
(* Properties of the Query / QueryBuilder layer *)

PlaceholdersOf(text) == SelectSeq(text, IsPlaceholder)

\* C1: for every N >= 0 where_clause calls on a builder made by
\* Query::generate, the finalized query has exactly N placeholders and exactly
\* N parameters, the predicates stand in the text in the order of the calls,
\* and the K-th placeholder is numbered K and belongs to the K-th parameter,
\* which is the value of the K-th call.
C1_PlaceholderAlignment ==
    \A c \in Calls :
        IsSome(sent[c]) =>
            LET q == Unwrapped(sent[c])
                N == Len(clauses[c])
                ph == PlaceholdersOf(q.sql)
            IN /\ Len(ph) = N
               /\ Len(q.params) = N
               /\ Len(q.sql) = 1 + 4 * N
               /\ \A k \in 1..N :
                    /\ q.sql[4 * k - 1] = clauses[c][k].fv.column
                    /\ q.sql[4 * k] = CompText(clauses[c][k].comp)
                    /\ q.sql[4 * k + 1] = ph[k]
                    /\ PlaceholderNumber(ph[k]) = k
                    /\ q.params[k] = clauses[c][k].fv.value

\* The example of the claim: one where_clause on id = 1 with Comp::Eq over
\* the leagues statement, and a builder finalized after two predicates.
C1_Witness ==
    /\ \E c \in Calls :
        /\ IsSome(sent[c])
        /\ Unwrapped(sent[c]).sql = <<"SELECT * FROM leagues", "WHERE", "id", "=", "$1">>
        /\ Unwrapped(sent[c]).params = <<IntVal(1)>>
    /\ \E c \in Calls : IsSome(sent[c]) /\ Len(clauses[c]) = 2

\* C8: a QueryBuilder is single-use: once the terminal execute has run on a
\* builder no operation changes it again, and no builder is executed more
\* than once.
C8_BuilderSingleUse ==
    /\ [](\A c \in Calls : executed[c] <= 1)
    /\ [][\A c \in Calls :
            bstate[c] = "Finalized" =>
                /\ bstate'[c] = "Finalized"
                /\ executed'[c] = executed[c]
                /\ sql'[c] = sql[c]
                /\ params'[c] = params[c]
                /\ sent'[c] = sent[c]]_vars

C8_Witness ==
    \E c \in Calls :
        /\ bstate[c] = "Finalized"
        /\ executed[c] = 1
        /\ Len(clauses[c]) = 1
        /\ ~ENABLED QueryExec(c)
        /\ \A fv \in FieldValues, cmp \in Comps : ~ENABLED WhereClause(c, fv, cmp)

\* C10: Query::generate(sql, datasource_name) returns a builder in the Empty
\* state holding exactly the given SQL text, no parameters and the given
\* datasource name.
C10_GenerateEmptyBuilder ==
    \A c \in Calls :
        bstate[c] = "Empty" =>
            /\ IsSome(genArgs[c])
            /\ sql[c] = <<Unwrapped(genArgs[c]).sql>>
            /\ params[c] = <<>>
            /\ datasource_name[c] = Unwrapped(genArgs[c]).ds

C10_Witness ==
    \E c, d \in Calls :
        /\ bstate[c] = "Empty"
        /\ sql[c] = <<"SELECT * FROM tournaments">>
        /\ datasource_name[c] = "postgres_local"
        /\ bstate[d] = "Empty"
        /\ sql[d] = <<"SELECT * FROM leagues">>
        /\ datasource_name[d] = "postgres_docker"

-----------------------------------------------------------------------------
(* Properties of the value codec and of the row abstraction *)

\* C2: for every supported scalar type and each of its optional forms, both
\* conversions are total (never panic) and an absent optional encodes to the
\* backend's NULL: for SQL Server the type's ColumnData variant holding None.
C2_TotalNullEncoding ==
    IsSome(enc) =>
        LET e == Unwrapped(enc) IN
        /\ e.outcome.kind # "Panic"
        /\ e.param.val = None =>
            /\ e.outcome.data = None
            /\ e.backend = "mssql" =>
                /\ e.outcome.kind = "ColumnData"
                /\ e.outcome.variant = SqlServerVariant(e.param.ty)

RowOpIs(ops) == IsSome(rowOp) /\ Unwrapped(rowOp).op \in ops

\* The decoding path of the call is the one of the backend that made the row.
OwnPath ==
    \/ Unwrapped(rowOp).op \in {"get_postgres", "get_postgres_opt"}
        /\ Unwrapped(row).backend = "postgres"
    \/ Unwrapped(rowOp).op \in {"get_mssql", "get_mssql_opt"}
        /\ Unwrapped(row).backend = "mssql"

ColumnAbsent == ~HasColumn(Unwrapped(row), Unwrapped(rowOp).col)
TypeIncompatible ==
    /\ HasColumn(Unwrapped(row), Unwrapped(rowOp).col)
    /\ ~Accepts(Unwrapped(rowOp).out, CellOf(Unwrapped(row), Unwrapped(rowOp).col).type)
CellIsNull ==
    /\ HasColumn(Unwrapped(row), Unwrapped(rowOp).col)
    /\ CellOf(Unwrapped(row), Unwrapped(rowOp).col).value = SqlNull

IsFailure(o, kinds) == o.kind = "Err" /\ o.error \in kinds

\* C3: the optional extraction returns None if and only if the backend
\* reports SQL NULL for the column; for an absent column or an incompatible
\* native type it returns a TypeMismatch/ColumnNotFound failure, never None.
C3_NullDiscrimination ==
    (RowOpIs({"get_postgres_opt", "get_mssql_opt"}) /\ OwnPath) =>
        LET o == Unwrapped(rowOp).outcome IN
        /\ o.kind = "None" => CellIsNull
        /\ (CellIsNull /\ ~TypeIncompatible) => o.kind = "None"
        /\ (ColumnAbsent \/ (TypeIncompatible /\ ~CellIsNull)) =>
                IsFailure(o, {"TypeMismatch", "ColumnNotFound"})

\* C4: typed extraction never panics for a data-dependent condition: an
\* absent column or an undecodable native type gives the caller an explicit
\* ColumnNotFound or TypeMismatch failure.
C4_ExtractionNeverPanics ==
    (RowOpIs({"get_postgres", "get_mssql"}) /\ OwnPath) =>
        LET o == Unwrapped(rowOp).outcome IN
        /\ o.kind # "Panic"
        /\ ColumnAbsent => IsFailure(o, {"ColumnNotFound"})
        /\ TypeIncompatible => IsFailure(o, {"TypeMismatch"})

\* C5: a Row operation invoked through the decoding path of the other
\* backend hands its caller an explicit UnsupportedBackend failure.
C5_UnsupportedBackendSurfaced ==
    (RowOpIs({"get_postgres", "get_mssql", "get_postgres_opt", "get_mssql_opt"})
        /\ ~OwnPath) =>
        IsFailure(Unwrapped(rowOp).outcome, {"UnsupportedBackend"})

Descriptors(r) ==
    [j \in DOMAIN r.cols |-> [name |-> r.cols[j].name, type |-> r.cols[j].type]]

\* C6: columns() returns one Column descriptor (name and native type) per
\* column of the row, in the backend's column order.
C6_ColumnsReflectRow ==
    RowOpIs({"columns"}) =>
        /\ Len(Unwrapped(rowOp).outcome.cols) = Len(Unwrapped(row).cols)
        /\ Unwrapped(rowOp).outcome.cols = Descriptors(Unwrapped(row))

-----------------------------------------------------------------------------
(* Properties of DatabaseResult and of insert *)

\* C7: decoding a DatabaseResult is repeatable and side-effect-free: after
\* any sequence of as_response, get_results and get_number_of_results calls
\* the wrapped row vector is the one given at construction, and any two
\* as_response calls returned equal collections.
C7_DecodeRepeatable ==
    IsSome(dbres) =>
        /\ Unwrapped(dbres).wrapper = dbres0
        /\ \A i, j \in DOMAIN responses : responses[i] = responses[j]

C7_Witness ==
    /\ IsSome(dbres)
    /\ Len(dbres0) = 2
    /\ dbres0[1] # dbres0[2]
    /\ Len(responses) = 2
    /\ Len(responses[1]) = 2
    /\ IsSome(lastRaw)
    /\ IsSome(lastCount)

LastInsertOf(who) ==
    LET ks == {k \in DOMAIN insertLog : insertLog[k].who = who}
    IN insertLog[CHOOSE k \in ks : \A m \in ks : m <= k]

-----------------------------------------------------------------------------
(* Properties of execution, of whole calls and of decoding *)

C12_RoundTrip ==
    IsSome(trip) =>
        LET t == Unwrapped(trip) IN
        /\ IsSome(t.param.val) => t.decoded = Value(Unwrapped(t.param.val))
        /\ t.param.val = None => t.decoded = Absent

\* A step of call c through a QueryBuilder operation that builds its Query.
BuilderStep(c) ==
    \/ bstate[c] = Nothing /\ bstate'[c] = "Empty"
    \/ /\ bstate[c] \in {"Empty", "Building"}
       /\ bstate'[c] = "Building"
       /\ Len(clauses'[c]) = Len(clauses[c]) + 1

\* C13: the SQL text and the parameter list of a Query change only through
\* QueryBuilder operations; handing the query to execution passes them on as
\* they are, and afterwards neither changes again.
C13_QueryFrame ==
    [][\A c \in Calls :
        /\ (sql'[c] # sql[c] \/ params'[c] # params[c]) => BuilderStep(c)
        /\ (sent[c] = None /\ IsSome(sent'[c])) =>
            /\ Unwrapped(sent'[c]).sql = sql[c]
            /\ Unwrapped(sent'[c]).params = params[c]
            /\ sql'[c] = sql[c]
            /\ params'[c] = params[c]
        /\ IsSome(sent[c]) =>
            /\ sql'[c] = sql[c]
            /\ params'[c] = params[c]
            /\ sent'[c] = sent[c]]_vars

C13_Witness ==
    \E c \in Calls :
        /\ IsSome(sent[c])
        /\ Len(params[c]) = 2
        /\ Unwrapped(sent[c]).params = params[c]
        /\ Unwrapped(sent[c]).sql = sql[c]
        /\ IsSome(result[c])

\* The query a call builds when it runs alone: generate, then its
\* where_clause calls in order.
RECURSIVE AloneQuery(_, _)
AloneQuery(q, cs) ==
    IF cs = <<>> THEN q
    ELSE AloneQuery([sql |-> q.sql \o PredicateTokens(Len(q.params), Head(cs).fv,
                                                      Head(cs).comp),
                     params |-> Append(q.params, Head(cs).fv.value)],
                    Tail(cs))

AloneRun(c) == AloneQuery(GenerateQuery(Unwrapped(genArgs[c]).sql), clauses[c])

\* C14: calls that run concurrently, each with its own builder and result, do
\* not interfere: under every interleaving a call's finalized SQL text,
\* parameter list and decoded result are the ones it has when it runs alone.
C14_CallsIndependent ==
    \A c \in Calls :
        IsSome(sent[c]) =>
            /\ Unwrapped(sent[c]).sql = AloneRun(c).sql
            /\ Unwrapped(sent[c]).params = AloneRun(c).params
            /\ Unwrapped(sent[c]).datasource_name = Unwrapped(genArgs[c]).ds
            /\ failure[c] = None =>
                /\ IsSome(result[c])
                /\ Unwrapped(result[c]).wrapper =
                     Execute(AloneRun(c).sql, AloneRun(c).params)
                /\ as_response(Unwrapped(result[c])) =
                     as_response([wrapper |->
                         Execute(AloneRun(c).sql, AloneRun(c).params)])

\* One call has finished while the other, on another statement, is still
\* adding predicates; and both finished with different results.
C14_Witness ==
    \/ \E c, d \in Calls :
        /\ IsSome(result[c])
        /\ Len(clauses[c]) = 1
        /\ bstate[d] = "Building"
        /\ Len(clauses[d]) = 1
        /\ sql[d][1] # sql[c][1]
        /\ clauses[d] # clauses[c]
        /\ Len(Unwrapped(result[c]).wrapper) = 1
    \/ \E c, d \in Calls :
        /\ IsSome(result[c])
        /\ IsSome(result[d])
        /\ Len(Unwrapped(result[c]).wrapper) = 2
        /\ Len(Unwrapped(result[d]).wrapper) = 0

\* C15: as_response returns one decoded entity per row of the row vector, in
\* its order (element i is the mapping of row i), get_results returns the
\* row vector itself, and get_number_of_results is its length whenever the
\* length fits in a signed 32-bit integer.
C15_ResponsePerRow ==
    /\ \A k \in DOMAIN responses :
        /\ Len(responses[k]) = Len(dbres0)
        /\ \A i \in DOMAIN dbres0 :
            /\ responses[k][i].id = CellValue(dbres0[i], "id")
            /\ responses[k][i].slug = CellValue(dbres0[i], "slug")
    /\ IsSome(lastRaw) => Unwrapped(lastRaw) = dbres0
    /\ (IsSome(lastCount) /\ Len(dbres0) <= I32Max) =>
            /\ Unwrapped(lastCount) = Len(dbres0)
            /\ \A k \in DOMAIN responses : Unwrapped(lastCount) = Len(responses[k])

C15_Witness ==
    /\ Len(dbres0) = 2
    /\ CellValue(dbres0[1], "id") = IntVal(2)
    /\ CellValue(dbres0[2], "id") = IntVal(1)
    /\ Len(responses) >= 1
    /\ responses[1][1].slug = StrVal("LCK")
    /\ lastRaw = Some(dbres0)
    /\ lastCount = Some(2)

====
